---- MODULE Spec2Model ----
(***************************************************************************)
(* Model of my_discord_ai_bot.py: the mention handler, the LLM dispatcher  *)
(* (ask_llm / _make_api_request) with its Ollama -> OpenAI fallback, and   *)
(* the reply post-processing of handle_question.                           *)
(*                                                                         *)
(* Python strings are sequences of one-character strings; None is a value  *)
(* that is no string.  An exception is named by its class.                 *)
(***************************************************************************)
EXTENDS Integers, Sequences, FiniteSets, TLC

\* ------------------------------------------------------------------ bounds
\* Largest run of whitespace put before and after a generated text.
MaxPad == 1

\* How many handle_question coroutines run side by side.
NumDispatches == 2

\* How many of them the progress of a dispatch is checked with.
NumLive == 1

\* -------------------------------------------------------- program constants
MAX_RESPONSE_LENGTH == 400
LOCAL_LLM_TIMEOUT == 5
REMOTE_API_TIMEOUT == 30

API_PROVIDER_OLLAMA == "ollama"
API_PROVIDER_OPENAI == "openai"
API_PROVIDER_FALLBACK == "fallback"

DEFAULT_OLLAMA_URL == "http://localhost:11434/api/chat"
DEFAULT_OPENAI_URL == "https://api.openai.com/v1/chat/completions"
DEFAULT_MODEL == <<"l","l","a","m","a","3",".","1",":","8","b">>
DEFAULT_OPENAI_MODEL == <<"g","p","t","-","3",".","5","-","t","u","r","b","o">>
DEFAULT_MAX_TOKENS == 120

\* The decimal text of DEFAULT_TEMPERATURE; the model has no fractions.
DEFAULT_TEMPERATURE == "0.7"

\* The glyph that opens the template is one character, written "(!)" here;
\* "{}" is the template's replacement field.
ERROR_MESSAGE_TEMPLATE ==
    <<"(!)"," ","{}"," ","h","a","d"," ","a"," ","h","i","c","c","u","p",","," ",
      "t","r","y"," ","a","g","a","i","n","!">>

GREETING_MESSAGE ==
    <<"H","e","y"," ","t","h","e","r","e","!"," ","(bot)"," ","W","h","a","t"," ",
      "c","a","n"," ","I"," ","h","e","l","p"," ","y","o","u"," ","w","i","t","h","?">>

\* The literal of handle_question that stands in for a blank LLM text.
NoResponsePlaceholder ==
    <<"I","'","m"," ","s","o","r","r","y",","," ","I"," ","c","o","u","l","d","n","'",
      "t"," ","g","e","n","e","r","a","t","e"," ","a"," ","r","e","s","p","o","n","s",
      "e"," ","r","i","g","h","t"," ","n","o","w",".">>

\* The literal of handle_question sent when the truncated reply is blank.
TroublePlaceholder ==
    <<"I","'","m"," ","h","a","v","i","n","g"," ","t","r","o","u","b","l","e"," ","r",
      "e","s","p","o","n","d","i","n","g"," ","r","i","g","h","t"," ","n","o","w",".",
      " ","P","l","e","a","s","e"," ","t","r","y"," ","a","g","a","i","n","!">>

\* ------------------------------------------------------------ Python values
None == <<"None">>

\* bool(v) of a string or None.
Truthy(v) == v # None /\ v # <<>>

IsSpace(c) == c \in {" ", "\t", "\n"}

\* str.strip()
strip(s) ==
    IF \A i \in 1..Len(s) : IsSpace(s[i]) THEN <<>>
    ELSE LET first == CHOOSE i \in 1..Len(s) :
                          ~IsSpace(s[i]) /\ \A j \in 1..(i - 1) : IsSpace(s[j])
             last  == CHOOSE i \in 1..Len(s) :
                          ~IsSpace(s[i]) /\ \A j \in (i + 1)..Len(s) : IsSpace(s[j])
         IN  SubSeq(s, first, last)

\* s[:n] for n >= 0
Truncate(s, n) == SubSeq(s, 1, IF n < Len(s) THEN n ELSE Len(s))

\* template.format(arg): every replacement field becomes arg.
RECURSIVE format(_, _)
format(template, arg) ==
    IF template = <<>> THEN <<>>
    ELSE (IF Head(template) = "{}" THEN arg ELSE <<Head(template)>>)
         \o format(Tail(template), arg)

\* s.replace(old, ''): leftmost non-overlapping occurrences, one pass.
RECURSIVE replace(_, _)
replace(s, old) ==
    IF Len(s) < Len(old) THEN s
    ELSE IF SubSeq(s, 1, Len(old)) = old
         THEN replace(SubSeq(s, Len(old) + 1, Len(s)), old)
         ELSE <<Head(s)>> \o replace(Tail(s), old)

Digit(d) == CASE d = 0 -> "0" [] d = 1 -> "1" [] d = 2 -> "2" [] d = 3 -> "3"
              [] d = 4 -> "4" [] d = 5 -> "5" [] d = 6 -> "6" [] d = 7 -> "7"
              [] d = 8 -> "8" [] d = 9 -> "9"

\* The decimal text an f-string gives a non-negative int.
RECURSIVE str(_)
str(n) == IF n < 10 THEN <<Digit(n)>> ELSE str(n \div 10) \o <<Digit(n % 10)>>

\* remove_bot_mentions(content, bot_id)
remove_bot_mentions(content, bot_id) ==
    LET c1 == replace(content, <<"<", "@">> \o str(bot_id) \o <<">">>)
        c2 == replace(c1, <<"<", "@", "!">> \o str(bot_id) \o <<">">>)
    IN  strip(c2)

\* ------------------------------------------------ outcomes of a call
\* A call returns a text or raises: the exception's class, its message and
\* the attempt ("primary" or "fallback") that raised it.
Returned(text) == [ok |-> TRUE, text |-> text]
Raised(cls, msg, origin) == [ok |-> FALSE, exc |-> cls, msg |-> msg, origin |-> origin]

\* aiohttp.ClientError and its subclasses that a request can raise:
\* ClientConnectorError (connection), ClientResponseError (raise_for_status)
\* and ContentTypeError (response.json() on a non-JSON content type).
IsClientError(cls) ==
    cls \in {"ClientConnectorError", "ClientResponseError", "ContentTypeError"}

IsTimeoutError(cls) == cls = "TimeoutError"

\* ------------------------------------------------------------- JSON values
JStr(s) == [str |-> s]
JNull == [null |-> TRUE]
JArr(a) == [arr |-> a]
JObj(f) == [obj |-> f]
EmptyObj == JObj([k \in {} |-> JNull])

IsObj(v) == DOMAIN v = {"obj"}
IsArr(v) == DOMAIN v = {"arr"}
IsStr(v) == DOMAIN v = {"str"}

\* dict.get(key, default)
get(d, key, default) == IF key \in DOMAIN d.obj THEN d.obj[key] ELSE default

\* Mutant: the content is returned as it came.
MessageContent_NoStrip(v, origin) ==
    IF ~IsObj(v) THEN Raised("AttributeError", "", origin)
    ELSE LET m == get(v, "message", EmptyObj)
         IN  IF ~IsObj(m) THEN Raised("AttributeError", "", origin)
             ELSE LET c == get(m, "content", JStr(<<>>))
                  IN  IF ~IsStr(c) THEN Raised("AttributeError", "", origin)
                      ELSE Returned(c.str)

\* <value>.get("message", {}).get("content", "").strip()
MessageContent(v, origin) ==
    IF ~IsObj(v) THEN Raised("AttributeError", "", origin)
    ELSE LET m == get(v, "message", EmptyObj)
         IN  IF ~IsObj(m) THEN Raised("AttributeError", "", origin)
             ELSE LET c == get(m, "content", JStr(<<>>))
                  IN  IF ~IsStr(c) THEN Raised("AttributeError", "", origin)
                      ELSE Returned(strip(c.str))

\* The extraction of _make_api_request, per provider.
ExtractContent(provider, data, origin) ==
    IF provider = API_PROVIDER_OPENAI
    THEN IF ~IsObj(data) THEN Raised("AttributeError", "", origin)
         ELSE LET choices == get(data, "choices", JArr(<<EmptyObj>>))
              IN  IF ~IsArr(choices) THEN Raised("TypeError", "", origin)
                  ELSE IF choices.arr = <<>> THEN Raised("IndexError", "", origin)
                  ELSE MessageContent(choices.arr[1], origin)
    ELSE MessageContent(data, origin)

\* ------------------------------------------------------------------- state
VARIABLES
    API_PROVIDER,     \* module configuration, read once from the environment
    ENABLE_FALLBACK,
    OPENAI_API_KEY,
    BOT_NAME,
    prompt_file,      \* the file named SYSTEM_PROMPT_FILE as the import finds it
    SYSTEM_PROMPT,    \* what load_system_prompt returned at import
    DISCORD_TOKEN,
    max_length,       \* the length handle_question truncates its reply to
    bot_started,      \* bot.run is running the client that delivers events
    pc,               \* where the coroutine handling the current event stands
    message,          \* the event: [author, mentions_bot, content]
    question,         \* handle_question's argument
    primary_error,    \* the exception ask_llm caught from the primary attempt
    llm_result,       \* what ask_llm returned or raised
    http_calls,       \* the session.post calls of this dispatch, in order
    replies,          \* the message.reply calls for this event, in order
    hq_calls,         \* how often handle_question was invoked for this event
    tasks             \* the locals of the handlers that run side by side

vars == <<API_PROVIDER, ENABLE_FALLBACK, OPENAI_API_KEY, BOT_NAME, prompt_file, SYSTEM_PROMPT,
          DISCORD_TOKEN, max_length, bot_started, pc, message, question,
          primary_error, llm_result, http_calls, replies, hq_calls, tasks>>

\* What handling one event leaves as it is: the module configuration, the
\* running client, and the handlers of the other events.
config == <<API_PROVIDER, ENABLE_FALLBACK, OPENAI_API_KEY, BOT_NAME, prompt_file, SYSTEM_PROMPT,
            DISCORD_TOKEN, max_length, bot_started, tasks>>

TEMPERATURE == DEFAULT_TEMPERATURE
MAX_TOKENS == DEFAULT_MAX_TOKENS

OLLAMA_URL == DEFAULT_OLLAMA_URL
OPENAI_URL == DEFAULT_OPENAI_URL
OLLAMA_MODEL == DEFAULT_MODEL
OPENAI_MODEL == DEFAULT_OPENAI_MODEL
FALLBACK_MODEL == DEFAULT_OPENAI_MODEL

\* The primary endpoint and model, chosen once from API_PROVIDER.
API_URL == IF API_PROVIDER = API_PROVIDER_OPENAI THEN OPENAI_URL ELSE OLLAMA_URL
MODEL == IF API_PROVIDER = API_PROVIDER_OPENAI THEN OPENAI_MODEL ELSE OLLAMA_MODEL

\* ---------------------------------------------------------- _make_api_request
\* Mutant: the system message is appended whatever the prompt holds.
openai_messages_AlwaysSystem(user_input) ==
    LET system_content == IF Truthy(SYSTEM_PROMPT) THEN strip(SYSTEM_PROMPT) ELSE <<>>
    IN  <<[role |-> "system", content |-> system_content],
          [role |-> "user", content |-> strip(user_input)]>>

\* The messages array of the OpenAI payload; the caller has already raised
\* for a user_content that is empty.
openai_messages(user_input) ==
    LET system_content == IF Truthy(SYSTEM_PROMPT) THEN strip(SYSTEM_PROMPT) ELSE <<>>
    IN  (IF Truthy(system_content)
         THEN <<[role |-> "system", content |-> system_content]>> ELSE <<>>)
        \o <<[role |-> "user", content |-> strip(user_input)]>>

\* The OpenAI payload: the model name and the messages, nothing else (the
\* token limit is commented out).  The payload check that follows it never
\* fires, the user message being always there.
openai_payload(model, user_input) ==
    LET model_name == IF Truthy(strip(model)) THEN strip(model)
                      ELSE <<"g","p","t","-","3",".","5","-","t","u","r","b","o">>
    IN  [model |-> model_name, messages |-> openai_messages(user_input)]

\* The Ollama payload: prompt and input as they are, options, no streaming.
ollama_payload(model, user_input) ==
    [model |-> model,
     messages |-> <<[role |-> "system", content |-> SYSTEM_PROMPT],
                    [role |-> "user", content |-> user_input]>>,
     options |-> [temperature |-> TEMPERATURE, num_predict |-> MAX_TOKENS],
     stream |-> FALSE]

\* Mutant: the Authorization header is set whenever there is a key.
request_authorization_WheneverKey(provider) ==
    IF Truthy(OPENAI_API_KEY) THEN <<"Bearer", " ">> \o strip(OPENAI_API_KEY) ELSE None

\* headers["Authorization"], set in the OpenAI branch only; None for a
\* request without the header.
request_authorization(provider) ==
    IF provider = API_PROVIDER_OPENAI
    THEN <<"Bearer", " ">> \o strip(OPENAI_API_KEY)
    ELSE None

\* timeout_duration
timeout_duration(provider) ==
    IF provider = API_PROVIDER_OLLAMA THEN LOCAL_LLM_TIMEOUT ELSE REMOTE_API_TIMEOUT

\* Mutant: the request goes to the primary endpoint whatever api_url is.
BuildRequest_PrimaryUrl(provider, api_url, model, user_input, origin) ==
    IF provider = API_PROVIDER_OPENAI
    THEN IF ~Truthy(OPENAI_API_KEY)
         THEN Raised("ValueError", "OPENAI_API_KEY is required", origin)
         ELSE IF ~Truthy(strip(user_input))
         THEN Raised("ValueError", "User input cannot be empty", origin)
         ELSE [ok |-> TRUE, role |-> origin, provider |-> provider, url |-> API_URL,
               authorization |-> request_authorization(provider),
               payload |-> openai_payload(model, user_input),
               timeout |-> timeout_duration(provider)]
    ELSE [ok |-> TRUE, role |-> origin, provider |-> provider, url |-> API_URL,
          authorization |-> request_authorization(provider),
          payload |-> ollama_payload(model, user_input),
          timeout |-> timeout_duration(provider)]

\* Mutant: the API key is not required before the request is posted.
BuildRequest_NoKeyCheck(provider, api_url, model, user_input, origin) ==
    IF provider = API_PROVIDER_OPENAI
    THEN IF ~Truthy(strip(user_input))
         THEN Raised("ValueError", "User input cannot be empty", origin)
         ELSE [ok |-> TRUE, role |-> origin, provider |-> provider, url |-> api_url,
               authorization |-> <<"Bearer", " ">> \o
                                 (IF Truthy(OPENAI_API_KEY) THEN strip(OPENAI_API_KEY)
                                  ELSE <<>>),
               payload |-> openai_payload(model, user_input),
               timeout |-> timeout_duration(provider)]
    ELSE [ok |-> TRUE, role |-> origin, provider |-> provider, url |-> api_url,
          authorization |-> request_authorization(provider),
          payload |-> ollama_payload(model, user_input),
          timeout |-> timeout_duration(provider)]

\* The request _make_api_request builds before it posts (where it goes, the
\* Authorization header or None for none, the JSON payload, the total
\* timeout), or the ValueError it raises instead of posting.
BuildRequest(provider, api_url, model, user_input, origin) ==
    IF provider = API_PROVIDER_OPENAI
    THEN IF ~Truthy(OPENAI_API_KEY)
         THEN Raised("ValueError", "OPENAI_API_KEY is required", origin)
         ELSE IF ~Truthy(strip(user_input))
         THEN Raised("ValueError", "User input cannot be empty", origin)
         ELSE [ok |-> TRUE, role |-> origin, provider |-> provider, url |-> api_url,
               authorization |-> request_authorization(provider),
               payload |-> openai_payload(model, user_input),
               timeout |-> timeout_duration(provider)]
    ELSE [ok |-> TRUE, role |-> origin, provider |-> provider, url |-> api_url,
          authorization |-> request_authorization(provider),
          payload |-> ollama_payload(model, user_input),
          timeout |-> timeout_duration(provider)]

\* response.ok
ResponseOk(status) == status < 400

\* What _make_api_request makes of the outcome of its post: the connection
\* fails, the total timeout expires, or a response arrives.
HandleResponse(provider, outcome, origin) ==
    CASE outcome.net = "refused" -> Raised("ClientConnectorError", "", origin)
      [] outcome.net = "timeout" -> Raised("TimeoutError", "", origin)
      [] outcome.net = "response" ->
            IF ~ResponseOk(outcome.status)
            THEN Raised("ClientResponseError", "", origin)
            ELSE IF ~outcome.json_content_type
            THEN Raised("ContentTypeError", "", origin)
            ELSE IF Len(outcome.body) = 0
            THEN Raised("JSONDecodeError", "", origin)
            ELSE ExtractContent(provider, outcome.body[1], origin)

\* ------------------------------------------------------------------ ask_llm
\* Mutant: a primary attempt that returned no text does not return.
PrimaryReturns_NonEmpty(r) == r.ok /\ r.text # <<>>

\* try: return await _make_api_request(...)
PrimaryReturns(r) == r.ok

\* Mutant: only connection failures and timeouts are caught.
CaughtAsPrimaryError_NetworkOnly(cls) ==
    cls \in {"ClientConnectorError", "TimeoutError"}

\* except (aiohttp.ClientError, asyncio.TimeoutError) as primary_error
CaughtAsPrimaryError(cls) == IsClientError(cls) \/ IsTimeoutError(cls)

\* Mutant: the fallback is tied to the "fallback" provider mode.
FallbackAvailable_FallbackMode ==
    /\ API_PROVIDER = API_PROVIDER_FALLBACK
    /\ ENABLE_FALLBACK
    /\ Truthy(OPENAI_API_KEY)

\* Mutant: ENABLE_FALLBACK is not consulted.
FallbackAvailable_IgnoresFlag ==
    /\ API_PROVIDER = API_PROVIDER_OLLAMA
    /\ Truthy(OPENAI_API_KEY)

\* if API_PROVIDER == API_PROVIDER_OLLAMA and ENABLE_FALLBACK and OPENAI_API_KEY
FallbackAvailable ==
    /\ API_PROVIDER = API_PROVIDER_OLLAMA
    /\ ENABLE_FALLBACK
    /\ Truthy(OPENAI_API_KEY)

\* Mutant: the fallback's own error is raised.
AfterFallbackFailure_RaisesFallback(primary, fallback) == fallback

\* except Exception as fallback_error: ... raise primary_error
AfterFallbackFailure(primary, fallback) == primary

\* ------------------------------------------------------------ handle_mention
\* Mutant: the question is only tested against None.
HasQuestion_NotNone(q) == q # None

\* if question:
HasQuestion(q) == Truthy(q)

\* ----------------------------------------------------------- handle_question
\* Mutant: the reply is not truncated.
postprocess_NoTruncate(reply, limit) ==
    LET text == IF ~Truthy(reply) \/ ~Truthy(strip(reply))
                THEN NoResponsePlaceholder ELSE reply
    IN  IF Truthy(strip(text)) THEN text ELSE TroublePlaceholder

\* Mutant: a blank text is not replaced before it is truncated.
postprocess_NoBlankCheck(reply, limit) ==
    LET truncated_reply == Truncate(reply, limit)
    IN  IF Truthy(strip(truncated_reply)) THEN truncated_reply
        ELSE TroublePlaceholder

\* The text handle_question replies with for the text ask_llm returned.
postprocess(reply, limit) ==
    LET text == IF ~Truthy(reply) \/ ~Truthy(strip(reply))
                THEN NoResponsePlaceholder ELSE reply
        truncated_reply == Truncate(text, limit)
    IN  IF Truthy(strip(truncated_reply)) THEN truncated_reply
        ELSE TroublePlaceholder

\* Mutant: the error message names the exception.
ErrorReply_NamesException(e) == format(ERROR_MESSAGE_TEMPLATE, BOT_NAME) \o <<e.exc>>

\* except Exception as e: reply(ERROR_MESSAGE_TEMPLATE.format(BOT_NAME))
ErrorReply(e) == format(ERROR_MESSAGE_TEMPLATE, BOT_NAME)

\* Mutant: a text that had to be replaced is followed by the second
\* placeholder as well.
handle_question_replies_BothPlaceholders(result, limit) ==
    IF ~result.ok THEN <<ErrorReply(result)>>
    ELSE IF ~Truthy(strip(result.text))
    THEN <<postprocess(result.text, limit), TroublePlaceholder>>
    ELSE <<postprocess(result.text, limit)>>

\* The message.reply calls of handle_question, in order, for what ask_llm
\* returned or raised.
handle_question_replies(result, limit) ==
    IF result.ok THEN <<postprocess(result.text, limit)>>
    ELSE <<ErrorReply(result)>>

\* Mutant: main only requires the Discord token.
main_returns_early_TokenOnly == ~Truthy(DISCORD_TOKEN)

\* main's two configuration checks, each of which prints and returns.
main_returns_early ==
    \/ ~Truthy(DISCORD_TOKEN)
    \/ API_PROVIDER = API_PROVIDER_OPENAI /\ ~Truthy(OPENAI_API_KEY)

\* ------------------------------------------------------------------- inputs
BotUserId == 12

Pad(n) == [i \in 1..n |-> " "]
LongText == [i \in 1..(MAX_RESPONSE_LENGTH + 1) |-> "x"]

\* Contents the provider may put in its content field.
Texts ==
    {Pad(a) \o body \o Pad(b) :
        a \in 0..MaxPad, b \in 0..MaxPad, body \in {<<>>, <<"H", "i">>, LongText}}

OllamaDoc(content) == JObj([message |-> JObj([content |-> content])])
OpenAIDoc(content) == JObj([choices |-> JArr(<<OllamaDoc(content)>>)])

\* JSON documents a 2xx response may carry.
Docs ==
    {OllamaDoc(JStr(t)) : t \in Texts} \cup {OpenAIDoc(JStr(t)) : t \in Texts}
    \cup {EmptyObj, OllamaDoc(JNull), OpenAIDoc(JNull),
          JObj([choices |-> JArr(<<>>)]), JObj([message |-> EmptyObj])}

\* Outcomes of one session.post.  body is empty for a body that is no JSON,
\* else the one-element sequence holding the document.
NetOutcomes ==
    {[net |-> "refused"], [net |-> "timeout"]}
    \cup {[net |-> "response", status |-> 500, json_content_type |-> TRUE, body |-> <<>>],
          [net |-> "response", status |-> 200, json_content_type |-> FALSE, body |-> <<>>],
          [net |-> "response", status |-> 200, json_content_type |-> TRUE, body |-> <<>>]}
    \cup {[net |-> "response", status |-> 200, json_content_type |-> TRUE, body |-> <<d>>] :
            d \in Docs}

BotMention == <<"<", "@">> \o str(BotUserId) \o <<">">>
NickMention == <<"<", "@", "!">> \o str(BotUserId) \o <<">">>

Contents ==
    {BotMention,
     NickMention \o <<" ", " ">>,
     BotMention \o <<" ", "h", "i">>,
     <<"h", "i", " ">> \o NickMention \o <<" ", "y", "o">>,
     <<"<", "@">> \o BotMention \o str(BotUserId) \o <<">">>,
     <<"<", "@", "3", ">", " ">> \o BotMention,
     <<"h", "i">>,
     <<" ">>}

Messages ==
    [author : {"bot", "user"}, mentions_bot : BOOLEAN, content : Contents]

NoMessage == [author |-> "nobody", mentions_bot |-> FALSE, content |-> <<>>]
NoResult == Raised("NoResult", "", "")
NoOutcome == [net |-> "pending"]
NoTasks == <<>>

\* The prompt file as open() finds it: missing, not readable, or a file
\* with its text.
PromptFile(state, content) == [state |-> state, content |-> content]

\* Mutant: the stripped text is returned even when it is empty.
load_system_prompt_NoEmptyCheck(file) ==
    CASE file.state = "missing" ->
            Returned(<<"R","e","p","l","y"," ","a","l","w","a","y","s"," ","t","h","a","t",
                     " ","t","h","e","r","e"," ","w","a","s"," ","a","n"," ","e","r","r",
                     "o","r"," ","a","n","d"," ","y","o","u"," ","c","a","n","n","o","t",
                     " ","c","o","n","t","i","n","u","e">>)
      [] file.state = "unreadable" -> Raised("PermissionError", "", "import")
      [] file.state = "file" -> Returned(strip(file.content))

\* load_system_prompt(): the stripped text of the file, or the fixed prompt
\* when the file is missing (FileNotFoundError) or its stripped text is
\* empty (ValueError); any other error of open() is not caught.
load_system_prompt(file) ==
    CASE file.state = "missing" ->
            Returned(<<"R","e","p","l","y"," ","a","l","w","a","y","s"," ","t","h","a","t",
                     " ","t","h","e","r","e"," ","w","a","s"," ","a","n"," ","e","r","r",
                     "o","r"," ","a","n","d"," ","y","o","u"," ","c","a","n","n","o","t",
                     " ","c","o","n","t","i","n","u","e">>)
      [] file.state = "unreadable" -> Raised("PermissionError", "", "import")
      [] file.state = "file" ->
            LET prompt == strip(file.content)
            IN  IF ~Truthy(prompt)
                THEN Returned(<<"R","e","p","l","y"," ","a","l","w","a","y","s"," ","t","h","a","t",
                              " ","t","h","e","r","e"," ","w","a","s"," ","a","n"," ","e","r","r",
                              "o","r"," ","a","n","d"," ","y","o","u"," ","c","a","n","n","o","t",
                              " ","c","o","n","t","i","n","u","e">>)
                ELSE Returned(prompt)

PromptFileGiven == PromptFile("file", <<"B", "e", " ", "k", "i", "n", "d", ".", "\n">>)

\* What load_system_prompt hands the module: never a blank text.
LoadedPrompts == {load_system_prompt(PromptFileGiven).text}
DiscordToken == <<"t", "k">>

\* No event is being handled.
HandlerIdle ==
    /\ message = NoMessage
    /\ question = <<>>
    /\ primary_error = NoResult
    /\ llm_result = NoResult
    /\ http_calls = <<>>
    /\ replies = <<>>
    /\ hq_calls = 0

\* -------------------------------------------------------------------- Init
Init ==
    /\ API_PROVIDER \in {API_PROVIDER_OLLAMA, API_PROVIDER_OPENAI, API_PROVIDER_FALLBACK}
    /\ ENABLE_FALLBACK \in BOOLEAN
    /\ OPENAI_API_KEY \in {None, <<>>, <<"s", "k">>}
    /\ BOT_NAME \in {<<"c","o","o","p","e","r","b","o","t">>, <<"A", "l">>}
    /\ prompt_file = PromptFileGiven
    /\ SYSTEM_PROMPT \in LoadedPrompts
    /\ DISCORD_TOKEN = DiscordToken
    /\ max_length = MAX_RESPONSE_LENGTH
    /\ bot_started = TRUE
    /\ pc = "idle"
    /\ HandlerIdle
    /\ tasks = NoTasks

\* ----------------------------------------------------------------- actions
\* The client that bot.run started delivers an event to on_message.
Receive ==
    /\ bot_started
    /\ pc = "idle"
    /\ \E m \in Messages : message' = m
    /\ pc' = "on_message"
    /\ UNCHANGED <<config, question, primary_error, llm_result, http_calls,
                   replies, hq_calls>>

\* The coroutine handling the event ends; its locals and the record of what
\* it did for the event go with it.
EventDone ==
    /\ pc' = "idle"
    /\ message' = NoMessage
    /\ question' = <<>>
    /\ primary_error' = NoResult
    /\ llm_result' = NoResult
    /\ http_calls' = <<>>
    /\ replies' = <<>>
    /\ hq_calls' = 0
    /\ UNCHANGED config

\* Mutant: the author of the message is not looked at.
on_message_AnyAuthor ==
    /\ pc = "on_message"
    /\ pc' = IF message.mentions_bot THEN "handle_mention" ELSE "process_commands"
    /\ UNCHANGED <<config, message, question, primary_error, llm_result,
                   http_calls, replies, hq_calls>>

on_message ==
    /\ pc = "on_message"
    /\ IF message.author = "bot" THEN EventDone
       ELSE /\ pc' = IF message.mentions_bot THEN "handle_mention"
                     ELSE "process_commands"
            /\ UNCHANGED <<config, message, question, primary_error, llm_result,
                           http_calls, replies, hq_calls>>

handle_mention ==
    /\ pc = "handle_mention"
    /\ LET q == remove_bot_mentions(message.content, BotUserId)
       IN  IF HasQuestion(q)
           THEN /\ question' = q
                /\ hq_calls' = hq_calls + 1
                /\ pc' = "handle_question"
                /\ UNCHANGED replies
           ELSE /\ replies' = Append(replies, GREETING_MESSAGE)
                /\ pc' = "process_commands"
                /\ UNCHANGED <<question, hq_calls>>
    /\ UNCHANGED <<config, message, primary_error, llm_result, http_calls>>

\* handle_question enters ask_llm, which builds and posts the primary request.
ask_llm_primary ==
    /\ pc = "handle_question"
    /\ LET req == BuildRequest(API_PROVIDER, API_URL, MODEL, question, "primary")
       IN  IF req.ok
           THEN /\ http_calls' = Append(http_calls, [request |-> req, done |-> FALSE,
                                                     outcome |-> NoOutcome,
                                                     result |-> NoResult])
                /\ pc' = "primary_in_flight"
                /\ UNCHANGED llm_result
           ELSE /\ llm_result' = req
                /\ pc' = "reply"
                /\ UNCHANGED http_calls
    /\ UNCHANGED <<config, message, question, primary_error, replies, hq_calls>>

\* The primary post ends; ask_llm returns, raises, or posts the fallback.
ask_llm_primary_done ==
    /\ pc = "primary_in_flight"
    /\ \E outcome \in NetOutcomes :
        LET r == HandleResponse(API_PROVIDER, outcome, "primary")
            ended == [http_calls EXCEPT ![1].done = TRUE, ![1].outcome = outcome,
                                        ![1].result = r]
            freq == BuildRequest(API_PROVIDER_OPENAI, OPENAI_URL, FALLBACK_MODEL,
                                 question, "fallback")
        IN  IF PrimaryReturns(r) \/ (~r.ok /\ ~CaughtAsPrimaryError(r.exc))
            THEN /\ llm_result' = r
                 /\ http_calls' = ended
                 /\ pc' = "reply"
                 /\ UNCHANGED primary_error
            ELSE /\ primary_error' = r
                 /\ IF ~FallbackAvailable
                    THEN /\ llm_result' = r
                         /\ http_calls' = ended
                         /\ pc' = "reply"
                    ELSE IF freq.ok
                    THEN /\ http_calls' = Append(ended, [request |-> freq, done |-> FALSE,
                                                         outcome |-> NoOutcome,
                                                         result |-> NoResult])
                         /\ pc' = "fallback_in_flight"
                         /\ UNCHANGED llm_result
                    ELSE /\ llm_result' = AfterFallbackFailure(r, freq)
                         /\ http_calls' = ended
                         /\ pc' = "reply"
    /\ UNCHANGED <<config, message, question, replies, hq_calls>>

\* The fallback post ends; ask_llm returns its text or raises primary_error.
ask_llm_fallback_done ==
    /\ pc = "fallback_in_flight"
    /\ \E outcome \in NetOutcomes :
        LET r == HandleResponse(API_PROVIDER_OPENAI, outcome, "fallback")
        IN  /\ http_calls' = [http_calls EXCEPT ![2].done = TRUE,
                                                ![2].outcome = outcome,
                                                ![2].result = r]
            /\ llm_result' = IF r.ok THEN r ELSE AfterFallbackFailure(primary_error, r)
    /\ pc' = "reply"
    /\ UNCHANGED <<config, message, question, primary_error, replies, hq_calls>>

\* handle_question replies with the processed text or the error message.
handle_question_reply ==
    /\ pc = "reply"
    /\ replies' = replies \o handle_question_replies(llm_result, max_length)
    /\ pc' = "process_commands"
    /\ UNCHANGED <<config, message, question, primary_error, llm_result,
                   http_calls, hq_calls>>

\* bot.process_commands(message) ends on_message.
process_commands ==
    /\ pc = "process_commands"
    /\ EventDone

Next ==
    \/ Receive
    \/ on_message
    \/ handle_mention
    \/ ask_llm_primary
    \/ ask_llm_primary_done
    \/ ask_llm_fallback_done
    \/ handle_question_reply
    \/ process_commands

Spec == Init /\ [][Next]_vars

\* ------------------------------------------------- post-processing alone
\* handle_question's reply step applied to every text and every max_length
\* of a bounded set: the texts begin with runs of whitespace around the
\* lengths of the placeholders and of MAX_RESPONSE_LENGTH.
PostPads ==
    (0..MaxPad) \cup {Len(TroublePlaceholder) - 1, Len(TroublePlaceholder),
                      MAX_RESPONSE_LENGTH}

PostTexts ==
    {Pad(a) \o body \o Pad(b) :
        a \in PostPads, b \in 0..MaxPad,
        body \in {<<>>, <<"\t", "\n">>, <<"H", "i">>, LongText}}

PostLengths ==
    (0..(MaxPad + 1)) \cup {Len(NoResponsePlaceholder), Len(TroublePlaceholder) - 1,
                            Len(TroublePlaceholder), MAX_RESPONSE_LENGTH - 1,
                            MAX_RESPONSE_LENGTH, MAX_RESPONSE_LENGTH + 1}

InitPost ==
    /\ API_PROVIDER = API_PROVIDER_OLLAMA
    /\ ENABLE_FALLBACK = TRUE
    /\ OPENAI_API_KEY = None
    /\ BOT_NAME = <<"c","o","o","p","e","r","b","o","t">>
    /\ prompt_file = PromptFileGiven
    /\ SYSTEM_PROMPT \in LoadedPrompts
    /\ DISCORD_TOKEN = DiscordToken
    /\ max_length \in PostLengths
    /\ bot_started = TRUE
    /\ tasks = NoTasks
    /\ pc = "reply"
    /\ message = [author |-> "user", mentions_bot |-> TRUE,
                  content |-> BotMention \o <<" ", "h", "i">>]
    /\ question = <<"h", "i">>
    /\ primary_error = NoResult
    /\ llm_result \in {Returned(t) : t \in PostTexts}
    /\ http_calls = <<>>
    /\ replies = <<>>
    /\ hq_calls = 1

NextPost ==
    \/ handle_question_reply
    \/ process_commands

SpecPost == InitPost /\ [][NextPost]_vars

\* ------------------------------------------------------ the script's start
\* Values os.getenv may give DISCORD_TOKEN: unset, empty, a token.
Tokens == {None, <<>>, DiscordToken}

\* The module is imported with any configuration and main has not run yet.
InitMain ==
    /\ API_PROVIDER \in {API_PROVIDER_OLLAMA, API_PROVIDER_OPENAI, API_PROVIDER_FALLBACK}
    /\ ENABLE_FALLBACK \in BOOLEAN
    /\ OPENAI_API_KEY \in {None, <<>>, <<"s", "k">>}
    /\ BOT_NAME \in {<<"c","o","o","p","e","r","b","o","t">>, <<"A", "l">>}
    /\ prompt_file = PromptFileGiven
    /\ SYSTEM_PROMPT \in LoadedPrompts
    /\ DISCORD_TOKEN \in Tokens
    /\ max_length = MAX_RESPONSE_LENGTH
    /\ bot_started = FALSE
    /\ pc = "main"
    /\ HandlerIdle
    /\ tasks = NoTasks

\* main: return on a missing token or a missing key of the openai provider,
\* else bot.run.
main ==
    /\ pc = "main"
    /\ IF main_returns_early
       THEN pc' = "exited" /\ UNCHANGED bot_started
       ELSE pc' = "idle" /\ bot_started' = TRUE
    /\ UNCHANGED <<API_PROVIDER, ENABLE_FALLBACK, OPENAI_API_KEY, BOT_NAME,
                   prompt_file, SYSTEM_PROMPT, DISCORD_TOKEN, max_length, message, question,
                   primary_error, llm_result, http_calls, replies, hq_calls, tasks>>

NextMain ==
    \/ main
    \/ Next

SpecMain == InitMain /\ [][NextMain]_vars

\* ------------------------------------------------------ the module's import
PromptContents ==
    {Pad(a) \o body \o Pad(b) :
        a \in 0..MaxPad, b \in 0..MaxPad,
        body \in {<<>>, <<"\n">>, <<"B", "e">>, <<"a", " ", "b">>}}

PromptFiles ==
    {PromptFile("missing", <<>>), PromptFile("unreadable", <<>>)}
    \cup {PromptFile("file", t) : t \in PromptContents}

\* The environment is read, SYSTEM_PROMPT is not assigned yet.
InitPrompt ==
    /\ API_PROVIDER \in {API_PROVIDER_OLLAMA, API_PROVIDER_OPENAI, API_PROVIDER_FALLBACK}
    /\ ENABLE_FALLBACK = TRUE
    /\ OPENAI_API_KEY \in {None, <<"s", "k">>}
    /\ BOT_NAME = <<"c","o","o","p","e","r","b","o","t">>
    /\ prompt_file \in PromptFiles
    /\ SYSTEM_PROMPT = None
    /\ DISCORD_TOKEN \in Tokens
    /\ max_length = MAX_RESPONSE_LENGTH
    /\ bot_started = FALSE
    /\ pc = "import"
    /\ HandlerIdle
    /\ tasks = NoTasks

\* SYSTEM_PROMPT = load_system_prompt(); an exception ends the import.
import_module ==
    /\ pc = "import"
    /\ LET r == load_system_prompt(prompt_file)
       IN  IF r.ok
           THEN SYSTEM_PROMPT' = r.text /\ pc' = "main"
           ELSE pc' = "import_failed" /\ UNCHANGED SYSTEM_PROMPT
    /\ UNCHANGED <<API_PROVIDER, ENABLE_FALLBACK, OPENAI_API_KEY, BOT_NAME,
                   prompt_file, DISCORD_TOKEN, max_length, bot_started, message,
                   question, primary_error, llm_result, http_calls, replies,
                   hq_calls, tasks>>

NextPrompt ==
    \/ import_module
    \/ main

SpecPrompt == InitPrompt /\ [][NextPrompt]_vars

\* -------------------------------------------------- request building alone
\* _make_api_request's building step applied to every user text and every
\* system prompt of a bounded set, blank ones included.
BuildTexts ==
    {Pad(a) \o body \o Pad(b) :
        a \in 0..MaxPad, b \in 0..MaxPad, body \in {<<>>, <<"h", "i">>, <<"a", " ", "b">>}}

BuildPrompts == {None} \cup BuildTexts

InitBuild ==
    /\ API_PROVIDER \in {API_PROVIDER_OLLAMA, API_PROVIDER_OPENAI, API_PROVIDER_FALLBACK}
    /\ ENABLE_FALLBACK = TRUE
    /\ OPENAI_API_KEY \in {None, <<"s", "k">>}
    /\ BOT_NAME = <<"c","o","o","p","e","r","b","o","t">>
    /\ prompt_file = PromptFileGiven
    /\ SYSTEM_PROMPT \in BuildPrompts
    /\ DISCORD_TOKEN = DiscordToken
    /\ max_length = MAX_RESPONSE_LENGTH
    /\ bot_started = TRUE
    /\ pc = "handle_question"
    /\ message = NoMessage
    /\ question \in BuildTexts
    /\ primary_error = NoResult
    /\ llm_result = NoResult
    /\ http_calls = <<>>
    /\ replies = <<>>
    /\ hq_calls = 1
    /\ tasks = NoTasks

NextBuild == ask_llm_primary

SpecBuild == InitBuild /\ [][NextBuild]_vars

\* ------------------------------------------------ handlers side by side
\* The event loop runs one handle_question coroutine per mention and
\* switches between them at each await: a coroutine's session.post is in
\* flight while the others build, post, return and reply.  Each coroutine
\* has its own message, question, session, primary_error and reply; the
\* module configuration is all they have in common.
Dispatches == 1..NumDispatches

ConcQuestion(d) == <<"q">> \o str(d)

ConcOutcomes ==
    {[net |-> "refused"], [net |-> "timeout"],
     [net |-> "response", status |-> 500, json_content_type |-> TRUE, body |-> <<>>],
     [net |-> "response", status |-> 200, json_content_type |-> TRUE,
      body |-> <<OllamaDoc(JStr(<<"H", "i">>))>>],
     [net |-> "response", status |-> 200, json_content_type |-> TRUE,
      body |-> <<OpenAIDoc(JStr(<<"Y", "o">>))>>]}

InitConc ==
    /\ API_PROVIDER \in {API_PROVIDER_OLLAMA, API_PROVIDER_OPENAI, API_PROVIDER_FALLBACK}
    /\ ENABLE_FALLBACK \in BOOLEAN
    /\ OPENAI_API_KEY \in {None, <<"s", "k">>}
    /\ BOT_NAME = <<"c","o","o","p","e","r","b","o","t">>
    /\ prompt_file = PromptFileGiven
    /\ SYSTEM_PROMPT \in LoadedPrompts
    /\ DISCORD_TOKEN = DiscordToken
    /\ max_length = MAX_RESPONSE_LENGTH
    /\ bot_started = TRUE
    /\ pc = "idle"
    /\ HandlerIdle
    /\ tasks = [d \in Dispatches |->
                  [pc |-> "handle_question", message_id |-> d,
                   question |-> ConcQuestion(d), primary_error |-> NoResult,
                   llm_result |-> NoResult, http_calls |-> <<>>, replies |-> <<>>]]

\* Mutant: the caught primary error is kept in one place for all
\* coroutines, where the first one to catch an error has put its own.
caught_primary_error_OnePlace(d) ==
    LET caught == {e \in Dispatches : tasks[e].primary_error # NoResult}
        first == CHOOSE e \in caught : \A f \in caught : e <= f
    IN  tasks[first].primary_error

\* primary_error, the name the except clause binds in coroutine d.
caught_primary_error(d) == tasks[d].primary_error

\* Nothing but the locals of the coroutines changes.
OnlyTasksChange ==
    UNCHANGED <<API_PROVIDER, ENABLE_FALLBACK, OPENAI_API_KEY, BOT_NAME, prompt_file,
                SYSTEM_PROMPT, DISCORD_TOKEN, max_length, bot_started, pc, message, question,
                primary_error, llm_result, http_calls, replies, hq_calls>>

task_ask_llm_primary(d) ==
    /\ tasks[d].pc = "handle_question"
    /\ LET t == tasks[d]
           req == BuildRequest(API_PROVIDER, API_URL, MODEL, t.question, "primary")
       IN  tasks' = [tasks EXCEPT ![d] =
               IF req.ok
               THEN [t EXCEPT !.http_calls = <<[request |-> req, done |-> FALSE,
                                               outcome |-> NoOutcome,
                                               result |-> NoResult]>>,
                              !.pc = "primary_in_flight"]
               ELSE [t EXCEPT !.llm_result = req, !.pc = "reply"]]
    /\ OnlyTasksChange

task_ask_llm_primary_done(d) ==
    /\ tasks[d].pc = "primary_in_flight"
    /\ \E outcome \in ConcOutcomes :
        LET t == tasks[d]
            r == HandleResponse(API_PROVIDER, outcome, "primary")
            ended == [t.http_calls EXCEPT ![1].done = TRUE, ![1].outcome = outcome,
                                          ![1].result = r]
            freq == BuildRequest(API_PROVIDER_OPENAI, OPENAI_URL, FALLBACK_MODEL,
                                 t.question, "fallback")
        IN  tasks' = [tasks EXCEPT ![d] =
                IF PrimaryReturns(r) \/ (~r.ok /\ ~CaughtAsPrimaryError(r.exc))
                THEN [t EXCEPT !.llm_result = r, !.http_calls = ended, !.pc = "reply"]
                ELSE IF ~FallbackAvailable
                THEN [t EXCEPT !.primary_error = r, !.llm_result = r,
                               !.http_calls = ended, !.pc = "reply"]
                ELSE IF freq.ok
                THEN [t EXCEPT !.primary_error = r,
                               !.http_calls = Append(ended,
                                   [request |-> freq, done |-> FALSE,
                                    outcome |-> NoOutcome, result |-> NoResult]),
                               !.pc = "fallback_in_flight"]
                ELSE [t EXCEPT !.primary_error = r,
                               !.llm_result = AfterFallbackFailure(r, freq),
                               !.http_calls = ended, !.pc = "reply"]]
    /\ OnlyTasksChange

\* Mutant: after a failed fallback ask_llm starts over with the primary.
task_ask_llm_fallback_done_StartsOver(d) ==
    /\ tasks[d].pc = "fallback_in_flight"
    /\ \E outcome \in ConcOutcomes :
        LET t == tasks[d]
            r == HandleResponse(API_PROVIDER_OPENAI, outcome, "fallback")
        IN  tasks' = [tasks EXCEPT ![d] =
                IF r.ok
                THEN [t EXCEPT !.http_calls = [t.http_calls EXCEPT ![2].done = TRUE,
                                                                  ![2].outcome = outcome,
                                                                  ![2].result = r],
                               !.llm_result = r,
                               !.pc = "reply"]
                ELSE [t EXCEPT !.http_calls = <<>>, !.primary_error = NoResult,
                               !.pc = "handle_question"]]
    /\ OnlyTasksChange

task_ask_llm_fallback_done(d) ==
    /\ tasks[d].pc = "fallback_in_flight"
    /\ \E outcome \in ConcOutcomes :
        LET t == tasks[d]
            r == HandleResponse(API_PROVIDER_OPENAI, outcome, "fallback")
        IN  tasks' = [tasks EXCEPT ![d] =
                [t EXCEPT !.http_calls = [t.http_calls EXCEPT ![2].done = TRUE,
                                                             ![2].outcome = outcome,
                                                             ![2].result = r],
                          !.llm_result = IF r.ok THEN r
                                         ELSE AfterFallbackFailure(
                                                  caught_primary_error(d), r),
                          !.pc = "reply"]]
    /\ OnlyTasksChange

\* message.reply on the coroutine's own message.
task_handle_question_reply(d) ==
    /\ tasks[d].pc = "reply"
    /\ LET t == tasks[d]
           texts == handle_question_replies(t.llm_result, max_length)
       IN  tasks' = [tasks EXCEPT ![d] =
               [t EXCEPT !.replies = t.replies \o
                             [i \in 1..Len(texts) |->
                                 [to |-> t.message_id, text |-> texts[i]]],
                         !.pc = "done"]]
    /\ OnlyTasksChange

NextConc ==
    \E d \in Dispatches :
        \/ task_ask_llm_primary(d)
        \/ task_ask_llm_primary_done(d)
        \/ task_ask_llm_fallback_done(d)
        \/ task_handle_question_reply(d)

SpecConc == InitConc /\ [][NextConc]_vars

\* The steps of coroutine d.
task_step(d) ==
    \/ task_ask_llm_primary(d)
    \/ task_ask_llm_primary_done(d)
    \/ task_ask_llm_fallback_done(d)
    \/ task_handle_question_reply(d)

LiveDispatches == 1..NumLive

InitLive ==
    /\ API_PROVIDER \in {API_PROVIDER_OLLAMA, API_PROVIDER_OPENAI, API_PROVIDER_FALLBACK}
    /\ ENABLE_FALLBACK \in BOOLEAN
    /\ OPENAI_API_KEY \in {None, <<"s", "k">>}
    /\ BOT_NAME = <<"c","o","o","p","e","r","b","o","t">>
    /\ prompt_file = PromptFileGiven
    /\ SYSTEM_PROMPT \in LoadedPrompts
    /\ DISCORD_TOKEN = DiscordToken
    /\ max_length = MAX_RESPONSE_LENGTH
    /\ bot_started = TRUE
    /\ pc = "idle"
    /\ HandlerIdle
    /\ tasks = [d \in LiveDispatches |->
                  [pc |-> "handle_question", message_id |-> d,
                   question |-> ConcQuestion(d), primary_error |-> NoResult,
                   llm_result |-> NoResult, http_calls |-> <<>>, replies |-> <<>>]]

NextLive ==
    \E d \in LiveDispatches :
        \/ task_ask_llm_primary(d)
        \/ task_ask_llm_primary_done(d)
        \/ task_ask_llm_fallback_done(d)
        \/ task_handle_question_reply(d)

\* The event loop resumes every coroutine that can go on, and every
\* session.post ends: with a response, a connection failure, or at the
\* latest when its total timeout expires.
Fairness == \A d \in LiveDispatches : WF_vars(task_step(d))

SpecLive == InitLive /\ [][NextLive]_vars /\ Fairness

\* --------------------------------------------------- vocabulary of the claims
\* ask_llm has returned or raised for the current event.
AskLlmDone == hq_calls = 1 /\ pc \in {"reply", "process_commands"}

\* The failure kinds of the design, by exception class.  The design names no
\* kind for the content-type check of response.json(); it is kept apart.
FailureKind(r) ==
    CASE r.exc = "ClientConnectorError" -> "NETWORK"
      [] r.exc = "TimeoutError" -> "TIMEOUT"
      [] r.exc = "ClientResponseError" -> "HTTP_STATUS"
      [] r.exc = "ValueError" -> "CONFIG_INVALID"
      [] r.exc = "ContentTypeError" -> "CONTENT_TYPE"
      [] OTHER -> "MALFORMED_RESPONSE"

PrimaryPosted == Len(http_calls) >= 1
PrimaryEnded == PrimaryPosted /\ http_calls[1].done
PrimaryFailedWith(kinds) ==
    /\ PrimaryEnded
    /\ ~http_calls[1].result.ok
    /\ FailureKind(http_calls[1].result) \in kinds
PrimaryRaised(classes) ==
    /\ PrimaryEnded
    /\ ~http_calls[1].result.ok
    /\ http_calls[1].result.exc \in classes
FallbackPosted == Len(http_calls) >= 2
FallbackEnded == FallbackPosted /\ http_calls[2].done

LocalPrimary == API_PROVIDER = "ollama"
KeyPresent == OPENAI_API_KEY # None /\ OPENAI_API_KEY # <<>>
EligibleByConfig == LocalPrimary /\ ENABLE_FALLBACK /\ KeyPresent

\* ----------------------------------------------------------------------- C1
\* C1 as stated: an HTTP_STATUS failure of a LOCAL primary ends the dispatch
\* with exactly one HTTP call, and no fallback call follows a primary that
\* failed with HTTP_STATUS, MALFORMED_RESPONSE or CONFIG_INVALID.
C1_OnlyNetworkOrTimeoutFallsBack ==
    /\ (AskLlmDone /\ LocalPrimary /\ PrimaryFailedWith({"HTTP_STATUS"}))
          => Len(http_calls) = 1
    /\ FallbackPosted =>
          ~PrimaryFailedWith({"HTTP_STATUS", "MALFORMED_RESPONSE", "CONFIG_INVALID"})

\* C1 amended: with an eligible configuration a fallback call is posted
\* exactly when the primary attempt raised an aiohttp.ClientError or a
\* timeout: a connection failure, a timeout, a non-2xx status
\* (ClientResponseError) or a non-JSON content type (ContentTypeError).  A
\* primary that failed any other way (invalid JSON, malformed structure, a
\* configuration error) is never followed by a fallback call.
C1_FallbackOnClientErrorOrTimeout ==
    /\ FallbackPosted =>
          /\ EligibleByConfig
          /\ PrimaryRaised({"ClientConnectorError", "TimeoutError",
                            "ClientResponseError", "ContentTypeError"})
    /\ (AskLlmDone /\ EligibleByConfig
          /\ PrimaryRaised({"ClientConnectorError", "TimeoutError",
                            "ClientResponseError", "ContentTypeError"}))
          => Len(http_calls) = 2
    /\ (AskLlmDone /\ ~llm_result.ok
          /\ llm_result.exc \in {"ValueError", "JSONDecodeError", "IndexError",
                                 "AttributeError", "TypeError"})
          => Len(http_calls) <= 1

\* An HTTP_STATUS failure of a LOCAL primary was followed by a fallback call.
C1_Witness ==
    /\ AskLlmDone /\ EligibleByConfig
    /\ PrimaryFailedWith({"HTTP_STATUS"})
    /\ FallbackEnded

\* ----------------------------------------------------------------------- C2
\* C2: with a LOCAL primary, fallback enabled and a key present, a NETWORK or
\* TIMEOUT failure of the primary gives exactly two HTTP calls, the first to
\* the LOCAL endpoint and the second to the REMOTE endpoint, and ask_llm
\* returns the REMOTE text when the REMOTE call succeeds.
C2_FallbackAfterNetworkFailure ==
    (AskLlmDone /\ EligibleByConfig /\ PrimaryFailedWith({"NETWORK", "TIMEOUT"}))
       => /\ Len(http_calls) = 2
          /\ http_calls[1].request.url = DEFAULT_OLLAMA_URL
          /\ http_calls[1].request.authorization = None
          /\ http_calls[2].request.url = DEFAULT_OPENAI_URL
          /\ http_calls[2].request.authorization # None
          /\ http_calls[2].done
          /\ http_calls[2].result.ok => llm_result = http_calls[2].result

C2_Witness ==
    /\ AskLlmDone /\ EligibleByConfig
    /\ PrimaryFailedWith({"NETWORK"})
    /\ FallbackEnded
    /\ http_calls[2].result.ok
    /\ llm_result.ok
    /\ llm_result.text = <<"H", "i">>

\* ----------------------------------------------------------------------- C3
\* C3: when the primary is REMOTE, or fallback is disabled, or no key is
\* present, at most one HTTP call is posted and ask_llm ends with the primary
\* attempt's own result.
C3_NoFallbackWhenNotEligible ==
    (API_PROVIDER = "openai" \/ ~ENABLE_FALLBACK \/ ~KeyPresent)
       => /\ Len(http_calls) <= 1
          /\ (AskLlmDone /\ PrimaryPosted)
                => /\ http_calls[1].done
                   /\ llm_result = http_calls[1].result
          /\ (AskLlmDone /\ ~llm_result.ok) => llm_result.origin = "primary"

\* A NETWORK failure with fallback disabled was surfaced after one call.
C3_Witness ==
    /\ AskLlmDone /\ LocalPrimary /\ ~ENABLE_FALLBACK /\ KeyPresent
    /\ PrimaryFailedWith({"NETWORK"})
    /\ Len(http_calls) = 1
    /\ llm_result = http_calls[1].result

\* ----------------------------------------------------------------------- C4
\* C4: when the fallback attempt fails, whatever the failure, ask_llm ends
\* with the failure the primary attempt raised.
C4_FallbackFailureSurfacesPrimary ==
    (AskLlmDone /\ FallbackPosted /\ ~http_calls[2].result.ok)
       => /\ ~llm_result.ok
          /\ llm_result = http_calls[1].result
          /\ llm_result.origin = "primary"

\* The fallback failed another way than the primary did.
C4_Witness ==
    /\ AskLlmDone /\ FallbackEnded
    /\ ~http_calls[2].result.ok
    /\ http_calls[2].result.exc = "ClientResponseError"
    /\ llm_result.exc = "ClientConnectorError"

\* ----------------------------------------------------------------------- C5
\* At most two calls, only the last of them in flight, the second posted
\* after the first ended in a failure, and to another provider.
C5_CallsInOrder ==
    /\ Len(http_calls) <= 2
    /\ \A i \in 1..Len(http_calls) : i < Len(http_calls) => http_calls[i].done
    /\ FallbackPosted =>
          /\ http_calls[1].done
          /\ ~http_calls[1].result.ok
          /\ http_calls[1].request.url # http_calls[2].request.url
          /\ http_calls[1].request.provider # http_calls[2].request.provider

\* While the event is handled, the calls stay as they are once the second
\* has ended.
C5_NoCallAfterFallback ==
    (FallbackEnded /\ pc' # "idle") => http_calls' = http_calls

\* C5: a dispatch posts at most two HTTP calls, one after the other: only the
\* last call can be in flight, the second is posted only once the first has
\* ended in a failure, the two go to different providers, and once the second
\* has ended no further call is posted.
C5_AtMostTwoSequentialCalls == []C5_CallsInOrder /\ [][C5_NoCallAfterFallback]_vars

\* The fallback call is in flight after the primary call ended.
C5_Witness ==
    /\ pc = "fallback_in_flight"
    /\ Len(http_calls) = 2
    /\ http_calls[1].done
    /\ ~http_calls[2].done

\* ----------------------------------------------------------------------- C6
\* C6: with a REMOTE provider and no API key the request is never built:
\* ask_llm raises the ValueError "OPENAI_API_KEY is required" with no HTTP
\* call posted and no fallback attempt.
C6_MissingKeyFailsBeforeAnyCall ==
    (API_PROVIDER = "openai" /\ ~KeyPresent)
       => /\ http_calls = <<>>
          /\ AskLlmDone =>
                /\ ~llm_result.ok
                /\ llm_result.exc = "ValueError"
                /\ llm_result.msg = "OPENAI_API_KEY is required"
                /\ llm_result.origin = "primary"

C6_Witness ==
    /\ AskLlmDone
    /\ API_PROVIDER = "openai" /\ OPENAI_API_KEY = None
    /\ ~llm_result.ok
    /\ http_calls = <<>>

\* ----------------------------------------------------------------------- C7
Blank(s) == \A i \in 1..Len(s) : s[i] \in {" ", "\t", "\n"}
Replied == pc = "process_commands" /\ hq_calls = 1 /\ Len(replies) = 1

\* C7 as stated: for every max_length >= 0 and every text the reply is at
\* most max_length characters long and is not blank.
C7_ReplyWithinMaxLength ==
    (Replied /\ llm_result.ok)
       => /\ Len(replies[1]) <= max_length
          /\ ~Blank(replies[1])

\* C7 amended: the reply is never blank; it is at most max_length characters
\* long whenever max_length is at least the length of the second placeholder
\* (58; MAX_RESPONSE_LENGTH is 400), and also whenever max_length >= 1 and
\* the text has no leading whitespace, as every text of the dispatcher.  A
\* reply longer than max_length is the second placeholder, sent because the
\* truncated text was blank (always so when max_length is 0).
C7_ReplyNeverBlankAndBounded ==
    (Replied /\ llm_result.ok)
       => /\ ~Blank(replies[1])
          /\ max_length >= Len(TroublePlaceholder) => Len(replies[1]) <= max_length
          /\ (max_length >= 1 /\ (llm_result.text = <<>> \/ ~Blank(<<llm_result.text[1]>>)))
                => Len(replies[1]) <= max_length
          /\ Len(replies[1]) > max_length =>
                /\ replies[1] = TroublePlaceholder
                /\ \/ max_length = 0
                   \/ /\ Len(llm_result.text) >= max_length
                      /\ Blank(SubSeq(llm_result.text, 1, max_length))

\* A text longer than MAX_RESPONSE_LENGTH was cut to MAX_RESPONSE_LENGTH.
C7_Witness ==
    /\ Replied /\ llm_result.ok
    /\ max_length = MAX_RESPONSE_LENGTH
    /\ Len(llm_result.text) > max_length
    /\ Len(replies[1]) = max_length

\* ----------------------------------------------------------------------- C8
\* C8: for a blank text the reply is the "couldn't generate a response"
\* placeholder cut to max_length, never the blank text or the error message;
\* the "having trouble responding" placeholder is sent only when the text
\* cut to max_length (the first placeholder for a blank text) is blank.
C8_BlankTextGetsPlaceholder ==
    (Replied /\ llm_result.ok)
       => /\ (Blank(llm_result.text) /\ max_length >= 1)
                => /\ replies[1] = SubSeq(NoResponsePlaceholder, 1,
                                          IF max_length < Len(NoResponsePlaceholder)
                                          THEN max_length
                                          ELSE Len(NoResponsePlaceholder))
                   /\ replies[1] # llm_result.text
                   /\ replies[1] # <<"(!)", " ">> \o BOT_NAME \o
                                   SubSeq(ERROR_MESSAGE_TEMPLATE, 4,
                                          Len(ERROR_MESSAGE_TEMPLATE))
          /\ replies[1] = TroublePlaceholder
                => \/ max_length = 0
                   \/ /\ ~Blank(llm_result.text)
                      /\ Len(llm_result.text) >= max_length
                      /\ Blank(SubSeq(llm_result.text, 1, max_length))

\* A whitespace-only text was answered with the first placeholder.
C8_Witness ==
    /\ Replied /\ llm_result.ok
    /\ max_length = MAX_RESPONSE_LENGTH
    /\ llm_result.text # <<>>
    /\ Blank(llm_result.text)
    /\ replies[1] = NoResponsePlaceholder

\* ----------------------------------------------------------------------- C9
\* C9: whatever failed and wherever, the reply to a failed dispatch is the
\* error template with the bot name in it, and nothing else.
C9_SameErrorMessageForEveryFailure ==
    (pc = "process_commands" /\ hq_calls = 1 /\ ~llm_result.ok)
       => replies = << <<"(!)", " ">> \o BOT_NAME \o
                       <<" ","h","a","d"," ","a"," ","h","i","c","c","u","p",","," ",
                         "t","r","y"," ","a","g","a","i","n","!">> >>

\* The error message was sent after the primary and the fallback both failed.
C9_Witness ==
    /\ pc = "process_commands" /\ hq_calls = 1
    /\ ~llm_result.ok
    /\ FallbackEnded
    /\ http_calls[2].result.exc = "IndexError"
    /\ Len(replies) = 1

\* ---------------------------------------------------------------------- C10
MentionHandled ==
    /\ message.author = "user"
    /\ message.mentions_bot
    /\ pc \notin {"idle", "on_message", "handle_mention"}

\* C10: a mention whose text without the bot's mentions is empty is answered
\* with the greeting, without handle_question or any HTTP call; any other
\* mention invokes handle_question once with that text and sends no greeting.
C10_GreetingOrQuestion ==
    /\ hq_calls <= 1
    /\ hq_calls = 0 => http_calls = <<>>
    /\ MentionHandled =>
          IF remove_bot_mentions(message.content, BotUserId) = <<>>
          THEN /\ replies = <<GREETING_MESSAGE>>
               /\ hq_calls = 0
               /\ http_calls = <<>>
          ELSE /\ hq_calls = 1
               /\ question = remove_bot_mentions(message.content, BotUserId)
               /\ \A i \in 1..Len(replies) : replies[i] # GREETING_MESSAGE

\* A message holding only a nickname mention and spaces was greeted.
C10_Witness ==
    /\ MentionHandled
    /\ message.content = NickMention \o <<" ", " ">>
    /\ replies = <<GREETING_MESSAGE>>
    /\ hq_calls = 0

\* ---------------------------------------------------------------------- C11
\* A 2xx response with a JSON content type whose body parses to a document.
ParsedDoc(c) ==
    /\ c.done
    /\ c.outcome.net = "response"
    /\ c.outcome.status = 200
    /\ c.outcome.json_content_type
    /\ Len(c.outcome.body) = 1

\* The structure the design expects of a provider's document:
\* message.content for the local kind, choices[0].message.content for the
\* remote kind, the content being a string.
HasMessageContent(v) ==
    /\ IsObj(v)
    /\ "message" \in DOMAIN v.obj
    /\ IsObj(v.obj.message)
    /\ "content" \in DOMAIN v.obj.message.obj
    /\ IsStr(v.obj.message.obj.content)

HasStructure(provider, doc) ==
    IF provider = "openai"
    THEN /\ IsObj(doc)
         /\ "choices" \in DOMAIN doc.obj
         /\ IsArr(doc.obj.choices)
         /\ Len(doc.obj.choices.arr) >= 1
         /\ HasMessageContent(doc.obj.choices.arr[1])
    ELSE HasMessageContent(doc)

ContentOf(provider, doc) ==
    IF provider = "openai" THEN doc.obj.choices.arr[1].obj.message.obj.content.str
    ELSE doc.obj.message.obj.content.str

\* C11 as stated: an attempt whose 2xx response carries a document without
\* the provider's expected structure (a missing "message" or "choices" key,
\* an empty "choices" list) ends in a MALFORMED_RESPONSE failure and returns
\* no text.
C11_MalformedStructureFails ==
    \A i \in 1..Len(http_calls) :
        LET c == http_calls[i]
        IN  (ParsedDoc(c) /\ ~HasStructure(c.request.provider, c.outcome.body[1]))
                => /\ ~c.result.ok
                   /\ FailureKind(c.result) = "MALFORMED_RESPONSE"

\* ---------------------------------------------------------------------- C12
\* t is s without its leading and trailing whitespace.
IsTrimOf(t, s) ==
    /\ t = <<>> \/ (~IsSpace(t[1]) /\ ~IsSpace(t[Len(t)]))
    /\ \E i \in 0..(Len(s) - Len(t)) :
          /\ SubSeq(s, i + 1, i + Len(t)) = t
          /\ \A j \in 1..i : IsSpace(s[j])
          /\ \A j \in (i + Len(t) + 1)..Len(s) : IsSpace(s[j])

\* C12: an attempt whose 2xx response carries the provider's structure
\* returns the content field without its leading and trailing whitespace; an
\* empty content is a successful empty text, and when the attempt is the
\* primary one no other call is made and ask_llm returns that text.
C12_SuccessReturnsStrippedContent ==
    \A i \in 1..Len(http_calls) :
        LET c == http_calls[i]
        IN  (ParsedDoc(c) /\ HasStructure(c.request.provider, c.outcome.body[1]))
                => /\ c.result.ok
                   /\ IsTrimOf(c.result.text,
                               ContentOf(c.request.provider, c.outcome.body[1]))
                   /\ i = 1 => Len(http_calls) = 1
                   /\ AskLlmDone => llm_result = Returned(c.result.text)

\* With a fallback-eligible configuration the primary answered with an empty
\* content, and ask_llm returned the empty text after that one call.
C12_Witness ==
    /\ AskLlmDone
    /\ EligibleByConfig
    /\ Len(http_calls) = 1
    /\ ParsedDoc(http_calls[1])
    /\ http_calls[1].outcome.body[1] = OllamaDoc(JStr(<<>>))
    /\ llm_result = Returned(<<>>)

\* ---------------------------------------------------------------------- C13
\* C13 as stated: in every provider configuration a call to the local
\* endpoint is bounded by LOCAL_LLM_TIMEOUT and a call to the remote
\* endpoint by REMOTE_API_TIMEOUT.
C13_TimeoutByEndpoint ==
    \A i \in 1..Len(http_calls) :
        LET req == http_calls[i].request
        IN  /\ req.url = OLLAMA_URL => req.timeout = 5
            /\ req.url = OPENAI_URL => req.timeout = 30

\* ---------------------------------------------------------------------- C14
PromptGiven == SYSTEM_PROMPT # None /\ ~Blank(SYSTEM_PROMPT)

\* C14: the messages of a request built for the remote kind hold a system
\* message only if the system prompt is not empty once trimmed, and always
\* exactly one user message, the last, with the trimmed user text; a user
\* text that is empty once trimmed ends the building with a ValueError and no
\* call is made.
C14_RemoteMessages ==
    /\ \A i \in 1..Len(http_calls) :
          LET req == http_calls[i].request
              msgs == req.payload.messages
          IN  req.provider = "openai" =>
                /\ Cardinality({j \in 1..Len(msgs) : msgs[j].role = "user"}) = 1
                /\ msgs[Len(msgs)].role = "user"
                /\ IsTrimOf(msgs[Len(msgs)].content, question)
                /\ msgs[Len(msgs)].content # <<>>
                /\ IF PromptGiven
                   THEN /\ Len(msgs) = 2
                        /\ msgs[1].role = "system"
                        /\ IsTrimOf(msgs[1].content, SYSTEM_PROMPT)
                   ELSE Len(msgs) = 1
    /\ (/\ hq_calls = 1
        /\ pc # "handle_question"
        /\ API_PROVIDER = "openai"
        /\ KeyPresent
        /\ Blank(question))
            => /\ http_calls = <<>>
               /\ llm_result = Raised("ValueError", "User input cannot be empty", "primary")

\* A remote request was built from a padded question under a prompt of
\* whitespace: its messages are the one user message with the trimmed text.
C14_Witness ==
    /\ API_PROVIDER = "openai"
    /\ SYSTEM_PROMPT = <<" ">>
    /\ question = <<" ", "h", "i">>
    /\ Len(http_calls) = 1
    /\ http_calls[1].request.payload.messages = <<[role |-> "user", content |-> <<"h", "i">>]>>

\* ---------------------------------------------------------------------- C15
TokenMissing == DISCORD_TOKEN = None \/ DISCORD_TOKEN = <<>>
RemoteWithoutKey == API_PROVIDER = "openai" /\ ~KeyPresent

\* C15: when the remote kind is the primary provider and there is no API
\* key, or when the Discord token is missing, main returns without bot.run:
\* the client never starts, no message is handled, no reply is sent and no
\* provider request is attempted.
C15_InvalidStartupNeverRuns ==
    (RemoteWithoutKey \/ TokenMissing)
        => /\ ~bot_started
           /\ pc \in {"main", "exited"}
           /\ message = NoMessage
           /\ hq_calls = 0
           /\ http_calls = <<>>
           /\ replies = <<>>

\* main has returned for the openai provider without a key, the token being
\* there.
C15_Witness ==
    /\ pc = "exited"
    /\ RemoteWithoutKey
    /\ ~TokenMissing
    /\ ~bot_started

\* ---------------------------------------------------------------------- C16
\* What ask_llm returns or raises for question q when it runs alone and its
\* posts end with o1 and, if there is a second one, o2.
AloneResult(q, o1, o2) ==
    LET req == BuildRequest(API_PROVIDER, API_URL, MODEL, q, "primary")
        r == HandleResponse(API_PROVIDER, o1, "primary")
        freq == BuildRequest(API_PROVIDER_OPENAI, OPENAI_URL, FALLBACK_MODEL, q, "fallback")
        f == HandleResponse(API_PROVIDER_OPENAI, o2, "fallback")
    IN  IF ~req.ok THEN req
        ELSE IF r.ok THEN r
        ELSE IF ~CaughtAsPrimaryError(r.exc) \/ ~FallbackAvailable THEN r
        ELSE IF ~freq.ok THEN r
        ELSE IF f.ok THEN f
        ELSE r

\* The outcome of the i-th post of a coroutine, if it made one.
OutcomeAt(t, i) == IF Len(t.http_calls) >= i THEN t.http_calls[i].outcome ELSE NoOutcome

\* C16: with several dispatches in flight, under every interleaving, each
\* dispatch sends requests that carry its own question only, ends with the
\* result it has alone for the same provider responses, and sends its one
\* reply, the one it sends alone, to the message that triggered it.
C16_DispatchesIndependent ==
    \A d \in DOMAIN tasks :
        LET t == tasks[d]
            alone == AloneResult(t.question, OutcomeAt(t, 1), OutcomeAt(t, 2))
        IN  /\ \A i \in 1..Len(t.http_calls) :
                  LET msgs == t.http_calls[i].request.payload.messages
                  IN  msgs[Len(msgs)].content = ConcQuestion(d)
            /\ t.pc \in {"reply", "done"} => t.llm_result = alone
            /\ t.pc # "done" => t.replies = <<>>
            /\ t.pc = "done" =>
                  t.replies = <<[to |-> d,
                                 text |-> IF alone.ok
                                          THEN postprocess(alone.text, max_length)
                                          ELSE ErrorReply(alone)]>>

\* Two dispatches were in flight together, their primary attempts failed in
\* different ways, the second one's fallback failed too and it has replied
\* while the first one still waits for its fallback.
C16_Witness ==
    /\ tasks # NoTasks
    /\ tasks[1].pc = "fallback_in_flight"
    /\ tasks[1].primary_error.exc = "ClientConnectorError"
    /\ tasks[2].pc = "done"
    /\ Len(tasks[2].http_calls) = 2
    /\ tasks[2].llm_result = Raised("TimeoutError", "", "primary")
    /\ Len(tasks[2].replies) = 1

\* ---------------------------------------------------------------------- C17
\* C17: when the primary attempt succeeds, with either kind of provider and
\* any fallback configuration, that one HTTP call is the only one, no
\* fallback is attempted and ask_llm returns the primary's text.
C17_PrimarySuccessSingleCall ==
    (PrimaryEnded /\ http_calls[1].result.ok)
        => /\ Len(http_calls) = 1
           /\ AskLlmDone
           /\ llm_result = http_calls[1].result

\* With a fallback-eligible configuration the primary returned an empty text
\* and ask_llm returned it after that one call.
C17_Witness ==
    /\ EligibleByConfig
    /\ PrimaryEnded
    /\ http_calls[1].result = Returned(<<>>)
    /\ pc = "process_commands"
    /\ Len(http_calls) = 1

\* ---------------------------------------------------------------------- C18
\* C18 as stated: in the default mode (API_PROVIDER "fallback") the primary
\* attempt goes to the Ollama endpoint, and a connection error or timeout of
\* it, with the fallback enabled and a key present, is followed by a
\* fallback attempt at the OpenAI endpoint.
C18_DefaultModeFallsBack ==
    (API_PROVIDER = "fallback" /\ ENABLE_FALLBACK /\ KeyPresent)
        => /\ PrimaryPosted => http_calls[1].request.url = OLLAMA_URL
           /\ (AskLlmDone /\ PrimaryFailedWith({"NETWORK", "TIMEOUT"}))
                 => /\ FallbackPosted
                    /\ http_calls[2].request.url = OPENAI_URL

\* ---------------------------------------------------------------------- C19
\* C19: a request to the local endpoint never carries an Authorization
\* header, and every request that carries one goes to the remote endpoint
\* with the remote payload shape: a model and the messages, nothing else.
C19_KeyOnlyToRemote ==
    \A i \in 1..Len(http_calls) :
        LET req == http_calls[i].request
        IN  /\ req.url = OLLAMA_URL => req.authorization = <<"None">>
            /\ req.authorization # <<"None">>
                  => /\ req.url = OPENAI_URL
                     /\ DOMAIN req.payload = {"model", "messages"}
                     /\ \A j \in 1..Len(req.payload.messages) :
                           DOMAIN req.payload.messages[j] = {"role", "content"}

\* After a keyless request to the local endpoint failed, the fallback
\* request carries the key to the remote endpoint.
C19_Witness ==
    /\ FallbackPosted
    /\ http_calls[1].request.url = OLLAMA_URL
    /\ http_calls[1].request.authorization = <<"None">>
    /\ http_calls[2].request.url = OPENAI_URL
    /\ http_calls[2].request.authorization = <<"Bearer", " ", "s", "k">>

\* ---------------------------------------------------------------------- C20
TheErrorMessage ==
    <<"(!)", " ">> \o BOT_NAME \o
    <<" ","h","a","d"," ","a"," ","h","i","c","c","u","p",","," ",
      "t","r","y"," ","a","g","a","i","n","!">>

\* C20: a call of handle_question sends exactly one reply whatever ask_llm
\* returned or raised: nothing before ask_llm ends, then the text cut to
\* the maximum length, one of the two placeholders, or the error message.
C20_ExactlyOneReply ==
    hq_calls = 1 =>
        IF pc = "process_commands"
        THEN /\ Len(replies) = 1
             /\ IF llm_result.ok
                THEN replies[1] \in {Truncate(llm_result.text, max_length),
                                     Truncate(NoResponsePlaceholder, max_length),
                                     TroublePlaceholder}
                ELSE replies[1] = TheErrorMessage
        ELSE replies = <<>>

\* After a fallback that returned only whitespace, the one reply is the
\* first placeholder.
C20_Witness ==
    /\ pc = "process_commands" /\ hq_calls = 1
    /\ FallbackEnded
    /\ http_calls[2].result = Returned(<<>>)
    /\ replies = <<NoResponsePlaceholder>>

\* ---------------------------------------------------------------------- C21
\* Nothing was sent, asked or posted for the event being handled.
NothingDone == replies = <<>> /\ hq_calls = 0 /\ http_calls = <<>>

C21_NoReplyWithoutMention ==
    /\ message.author = "bot" => pc = "on_message" /\ NothingDone
    /\ (message.author = "user" /\ ~message.mentions_bot)
          => pc \in {"on_message", "process_commands"} /\ NothingDone

C21_MentionEntersHandleMention ==
    (pc' = "handle_mention")
        <=> (pc = "on_message" /\ message.author = "user" /\ message.mentions_bot)

\* C21: on_message never replies to or dispatches for a message of the bot
\* itself; for a message of another author it enters handle_mention if and
\* only if the bot is among the mentions; a message that does not mention
\* the bot gets no reply and no HTTP call.
C21_OnlyMentionsOfOthersAreHandled ==
    /\ []C21_NoReplyWithoutMention
    /\ [][C21_MentionEntersHandleMention]_vars

\* on_message has passed on a user's message whose text holds the bot's
\* mention while the bot is not among its mentions: nothing was sent.
C21_Witness ==
    /\ message.author = "user"
    /\ ~message.mentions_bot
    /\ message.content = BotMention \o <<" ", "h", "i">>
    /\ pc = "process_commands"
    /\ NothingDone

\* ---------------------------------------------------------------------- C22
\* The dispatcher's states: the primary attempt, the fallback attempt, done.
AttemptPrimary(d) == tasks[d].pc \in {"handle_question", "primary_in_flight"}
AttemptFallback(d) == tasks[d].pc = "fallback_in_flight"
DispatchDone(d) == tasks[d].pc \in {"reply", "done"}
ReplySent(d) == tasks[d].pc = "done" /\ Len(tasks[d].replies) = 1

C22_NoWayBack ==
    \A d \in DOMAIN tasks :
        /\ AttemptFallback(d) => ~AttemptPrimary(d)'
        /\ DispatchDone(d) => DispatchDone(d)'

\* C22: every HTTP call ending, every dispatch that handle_question started
\* reaches done and its reply is sent; the dispatcher does not stay in the
\* primary or the fallback attempt, and goes neither from the fallback
\* attempt back to the primary one nor from done back to an attempt.
C22_DispatchEndsWithReply ==
    /\ \A d \in LiveDispatches :
          (AttemptPrimary(d) \/ AttemptFallback(d)) ~> (DispatchDone(d) /\ ReplySent(d))
    /\ [][C22_NoWayBack]_vars

\* Every dispatch went through both attempts, the fallback's text is its
\* result and its reply is sent.
C22_Witness ==
    /\ tasks # NoTasks
    /\ \A d \in LiveDispatches :
          /\ ReplySent(d)
          /\ Len(tasks[d].http_calls) = 2
          /\ tasks[d].llm_result = Returned(<<"Y", "o">>)

\* ---------------------------------------------------------------------- C23
\* sub occurs in s.
Contains(s, sub) ==
    \E i \in 1..(Len(s) - Len(sub) + 1) : SubSeq(s, i, i + Len(sub) - 1) = sub

OtherMention == <<"<", "@", "3", ">">>

\* C23 as stated: what remove_bot_mentions returns for the content of a
\* message holds neither form of the bot's mention, keeps the mentions of
\* other ids, has no whitespace at either end, and is returned unchanged
\* when remove_bot_mentions is applied to it again.
C23_BotMentionsRemoved ==
    MentionHandled =>
        LET r == remove_bot_mentions(message.content, BotUserId)
        IN  /\ ~Contains(r, <<"<", "@", "1", "2", ">">>)
            /\ ~Contains(r, <<"<", "@", "!", "1", "2", ">">>)
            /\ Contains(message.content, OtherMention) => Contains(r, OtherMention)
            /\ IsTrimOf(r, r)
            /\ remove_bot_mentions(r, BotUserId) = r

\* ---------------------------------------------------------------------- C24
FallbackPromptText ==
    <<"R","e","p","l","y"," ","a","l","w","a","y","s"," ","t","h","a","t",
    " ","t","h","e","r","e"," ","w","a","s"," ","a","n"," ","e","r","r",
    "o","r"," ","a","n","d"," ","y","o","u"," ","c","a","n","n","o","t",
    " ","c","o","n","t","i","n","u","e">>

ImportDone == pc \notin {"import", "import_failed"}

\* C24: load_system_prompt does not raise for a missing or a blank prompt
\* file: it returns the file's text without the whitespace around it when
\* that is not empty, and the fixed fallback prompt when the file is missing
\* or holds nothing but whitespace; the prompt it returns is never empty.
C24_PromptNeverEmpty ==
    /\ prompt_file.state \in {"missing", "file"} => pc # "import_failed"
    /\ ImportDone =>
          /\ SYSTEM_PROMPT # <<>>
          /\ ~Blank(SYSTEM_PROMPT)
          /\ IF prompt_file.state = "file" /\ ~Blank(prompt_file.content)
             THEN IsTrimOf(SYSTEM_PROMPT, prompt_file.content)
             ELSE SYSTEM_PROMPT = FallbackPromptText

\* The import found a file holding one space and SYSTEM_PROMPT is the
\* fallback prompt.
C24_Witness ==
    /\ pc = "main"
    /\ prompt_file = PromptFile("file", <<" ">>)
    /\ SYSTEM_PROMPT = FallbackPromptText

====
